---- MODULE Spec2Model ----
(***************************************************************************)
(* Hybrid catalog storage of the character catalog CLI (src/cli.py):       *)
(* CharacterStorage (remote snapshot + persisted user entries + id         *)
(* counter), the fetch and create commands that drive it, the process      *)
(* life cycle (main / uncaught exception / restart), the argument parser   *)
(* (ArgsParser) and the dispatch of a line to a command (CLI).             *)
(***************************************************************************)
EXTENDS Integers, Sequences, FiniteSets, TLC

\* ------------------------------------------------------------------ bounds
\* most records in one remote response
MaxPage == 2
\* most entries in the user sequence
MaxUser == 2
\* most tokens on one line given to the parser
MaxTokens == 3

\* ------------------------------------------------------- program constants
\* CharacterStorage.__init__: self._next_id = 10000
FirstUserId == 10000

VARIABLES
    pc,               \* "running": CLI.run is reading lines; "crashed": an
                      \* exception left main() and the process is gone
    api_characters,   \* CharacterStorage._api_characters
    user_characters,  \* CharacterStorage._user_characters
    next_id,          \* CharacterStorage._next_id
    save_file,        \* the file SAVE_FILE on disk
    ret,              \* what the last operation was given and returned
    creates,          \* number of successful creates since the file was last
                      \* absent or written by somebody else
    invocation        \* the line CLI.exec_command was given last and what it
                      \* made of it; NoInvocation when none was dispatched

vars == <<pc, api_characters, user_characters, next_id, save_file, ret, creates,
          invocation>>

\* ----------------------------------------------------------------- helpers
\* dict.get(key, default)
Get(d, key, default) == IF key \in DOMAIN d THEN d[key] ELSE default

\* {} : the empty dict
EmptyDict == <<>>

Range(s) == {s[i] : i \in DOMAIN s}

SeqsUpTo(S, n) == UNION {[1..k -> S] : k \in 0..n}

\* max(c.id for c in chars), chars non-empty
MaxId(chars) == CHOOSE m \in {chars[i].id : i \in DOMAIN chars} :
                    \A i \in DOMAIN chars : chars[i].id <= m

\* -------------------------------------------------------------------- text
\* A text the program takes apart is a sequence of one-character strings.
Whitespace == {" ", "\t"}

UpperToLower ==
    ("A" :> "a") @@ ("B" :> "b") @@ ("L" :> "l") @@ ("N" :> "n") @@ ("R" :> "r") @@ ("S" :> "s")

\* seeded fault: the case is kept
lower_Keeps(s) == s

\* str.lower
lower(s) == [i \in DOMAIN s |->
                IF s[i] \in DOMAIN UpperToLower THEN UpperToLower[s[i]] ELSE s[i]]

\* str.startswith
startswith(s, prefix) ==
    Len(s) >= Len(prefix) /\ SubSeq(s, 1, Len(prefix)) = prefix

\* str.strip
strip(s) ==
    LET inked == {i \in DOMAIN s : s[i] \notin Whitespace} IN
    IF inked = {} THEN <<>>
    ELSE LET first == CHOOSE i \in inked : \A j \in inked : i <= j
             last  == CHOOSE i \in inked : \A j \in inked : j <= i
         IN SubSeq(s, first, last)

\* str.split(): the maximal runs of characters that are not whitespace
RECURSIVE split(_)
split(s) ==
    IF s = <<>> THEN <<>>
    ELSE IF Head(s) \in Whitespace THEN split(Tail(s))
    ELSE LET n == CHOOSE k \in 1..Len(s) :
                    /\ \A i \in 1..k : s[i] \notin Whitespace
                    /\ k = Len(s) \/ s[k + 1] \in Whitespace
         IN <<SubSeq(s, 1, n)>> \o split(SubSeq(s, n + 1, Len(s)))

\* " ".join / the text of a line: the parts with sep between them
RECURSIVE join(_, _)
join(parts, sep) ==
    IF parts = <<>> THEN <<>>
    ELSE IF Len(parts) = 1 THEN parts[1]
    ELSE parts[1] \o sep \o join(Tail(parts), sep)

\* ------------------------------------------------------------------ parser
\* options[key] = value
Put(options, key, value) ==
    [k \in DOMAIN options \cup {key} |-> IF k = key THEN value ELSE options[k]]

True == <<"t", "r", "u", "e">>
Dash == <<"-">>
DashDash == <<"-", "-">>

\* seeded fault: the token after a long option is never taken as its value
TakesValue_Never(parts, i) == FALSE

\* ArgsParser.parse, line 636 (i counts from 1 here)
TakesValue(parts, i) ==
    i + 1 <= Len(parts) /\ ~startswith(parts[i + 1], Dash)

\* ArgsParser.parse, the while loop (lines 631-645)
RECURSIVE parse_loop(_, _, _, _)
parse_loop(parts, i, args, options) ==
    IF ~(i <= Len(parts)) THEN [args |-> args, options |-> options]
    ELSE LET part == parts[i] IN
         IF startswith(part, DashDash)
         THEN LET key == SubSeq(part, 3, Len(part)) IN
              IF TakesValue(parts, i)
              THEN parse_loop(parts, i + 2, args, Put(options, key, parts[i + 1]))
              ELSE parse_loop(parts, i + 1, args, Put(options, key, <<>>))
         ELSE IF startswith(part, Dash)
         THEN parse_loop(parts, i + 1, args,
                         Put(options, SubSeq(part, 2, Len(part)), True))
         ELSE parse_loop(parts, i + 1, Append(args, part), options)

\* ParsedArgs
ParsedArgs(command, args, options) ==
    [command |-> command, args |-> args, options |-> options]

\* ArgsParser.parse
parse(raw_input) ==
    LET parts == split(strip(raw_input)) IN
    IF parts = <<>> THEN ParsedArgs(<<>>, <<>>, EmptyDict)
    ELSE LET rest == parse_loop(parts, 2, <<>>, EmptyDict) IN
         ParsedArgs(lower(parts[1]), rest.args, rest.options)

\* ------------------------------------------------------- the remote source
\* Records the remote source may send.  A record is a dict; keys may be absent.
RawFull == [id |-> 1, name |-> "Rick Sanchez", status |-> "Alive",
            species |-> "Human", gender |-> "Male",
            origin |-> [name |-> "Earth"], location |-> [name |-> "Citadel"],
            image |-> "rick.png", episode |-> <<"e1", "e2">>]
RawHigh == [id |-> 10000, name |-> "Beth Smith", origin |-> [url |-> ""]]
RawNoId == [name |-> "Nobody", status |-> "Alive"]

RawPool == {RawFull, RawHigh, RawNoId}

\* What one requests.get(...) can end in: an exception of requests
\* (RequestException), or a 200 response with a JSON body.
TransportFaults == {"timeout", "connection", "http_status"}

\* one page of the remote source: each record listed once
Pages ==
    {s \in SeqsUpTo(RawPool, MaxPage) :
        \A i, j \in DOMAIN s : i # j => s[i] # s[j]}

Responses ==
    {[kind |-> k, data |-> EmptyDict] : k \in TransportFaults}
    \cup {[kind |-> "ok", data |-> EmptyDict]}
    \cup {[kind |-> "ok", data |-> [results |-> s]] : s \in Pages}

\* Character(id=item["id"], name=item["name"], status=item.get(...), ...)
CharacterOf(item) ==
    [id              |-> item["id"],
     name            |-> item["name"],
     status          |-> Get(item, "status", "unknown"),
     species         |-> Get(item, "species", "Unknown"),
     gender          |-> Get(item, "gender", "unknown"),
     origin          |-> Get(Get(item, "origin", EmptyDict), "name", "Unknown"),
     location        |-> Get(Get(item, "location", EmptyDict), "name", "Unknown"),
     image_url       |-> Get(item, "image", ""),
     episode_count   |-> Len(Get(item, "episode", <<>>)),
     created_by_user |-> FALSE]

\* item["id"] / item["name"] raise KeyError when the key is absent
RaisesKeyError(item) == ~({"id", "name"} \subseteq DOMAIN item)

\* seeded fault: the new page is merged into the earlier one
Replaced_Merges(old, characters) == old \o characters

\* the new value of self._api_characters (line 95)
Replaced(old, characters) == characters

\* seeded fault: a transport fault empties the remote sequence
fetch_from_api_ClearsOnFault(api, response) ==
    [exc |-> "none", api |-> <<>>, value |-> <<>>]

\* CharacterStorage.fetch_from_api: [exc, api, value]
fetch_from_api(api, response) ==
    IF response.kind \in TransportFaults
    THEN \* except requests.RequestException: print; return []
         [exc |-> "none", api |-> api, value |-> <<>>]
    ELSE LET items == Get(response.data, "results", <<>>) IN
         IF \E i \in DOMAIN items : RaisesKeyError(items[i])
         THEN \* not a RequestException: leaves fetch_from_api
              [exc |-> "KeyError", api |-> api, value |-> <<>>]
         ELSE LET characters == [i \in DOMAIN items |-> CharacterOf(items[i])] IN
              [exc |-> "none", api |-> Replaced(api, characters), value |-> characters]

\* seeded fault: the user entries first
get_all_of_UserFirst(api, user) == user \o api

\* CharacterStorage.get_all
get_all_of(api, user) == api \o user

get_all == get_all_of(api_characters, user_characters)

\* ------------------------------------------------------- the durable store
\* The file is absent, unreadable, text that is no JSON, or a JSON array of
\* objects; an object is written as its members in order, <<key, value>>.
FieldOrder == <<"id", "name", "status", "species", "gender", "origin",
                "location", "image_url", "episode_count", "created_by_user">>
AllFields == Range(FieldOrder)
RequiredFields == AllFields \ {"episode_count", "created_by_user"}

Absent == [kind |-> "absent", items |-> <<>>]

\* asdict(c) written by json.dump: the members in field order
asdict(c) == [i \in DOMAIN FieldOrder |-> <<FieldOrder[i], c[FieldOrder[i]]>>]

\* seeded fault: only the newest entry is written
save_user_characters_OnlyNew(chars) ==
    [kind |-> "json",
     items |-> IF chars = <<>> THEN <<>> ELSE <<asdict(chars[Len(chars)])>>]

\* CharacterStorage._save_user_characters: the whole list, overwriting
save_user_characters(chars) ==
    [kind |-> "json", items |-> [i \in DOMAIN chars |-> asdict(chars[i])]]

\* json.load of one object: a dict, the last member of a key winning
DictOf(obj) ==
    [k \in {obj[i][1] : i \in DOMAIN obj} |->
        LET at == {i \in DOMAIN obj : obj[i][1] = k}
            last == CHOOSE i \in at : \A j \in at : j <= i
        IN obj[last][2]]

\* Character(**item) raises TypeError on a missing required or an unexpected key
RaisesTypeError(d) == ~(RequiredFields \subseteq DOMAIN d /\ DOMAIN d \subseteq AllFields)

\* seeded fault: the stored flag is ignored, the default taken
FromDict_DropsFlag(d) ==
    [id              |-> d["id"],
     name            |-> d["name"],
     status          |-> d["status"],
     species         |-> d["species"],
     gender          |-> d["gender"],
     origin          |-> d["origin"],
     location        |-> d["location"],
     image_url       |-> d["image_url"],
     episode_count   |-> Get(d, "episode_count", 0),
     created_by_user |-> FALSE]

\* Character(**item): episode_count and created_by_user have defaults
FromDict(d) ==
    [id              |-> d["id"],
     name            |-> d["name"],
     status          |-> d["status"],
     species         |-> d["species"],
     gender          |-> d["gender"],
     origin          |-> d["origin"],
     location        |-> d["location"],
     image_url       |-> d["image_url"],
     episode_count   |-> Get(d, "episode_count", 0),
     created_by_user |-> Get(d, "created_by_user", FALSE)]

\* seeded fault: the last entry's id instead of the maximum
NextIdAfterLoad_Last(chars) ==
    IF chars # <<>> THEN chars[Len(chars)].id + 1 ELSE FirstUserId

\* seeded fault: the counter is not moved past the reloaded entries
NextIdAfterLoad_Fresh(chars) == FirstUserId

\* self._next_id after a load that produced chars (lines 142-143)
NextIdAfterLoad(chars) ==
    IF chars # <<>> THEN MaxId(chars) + 1 ELSE FirstUserId

\* CharacterStorage.__init__ with _load_user_characters: [exc, user, next_id]
load_user_characters(file) ==
    IF file.kind = "absent"
    THEN [exc |-> "none", user |-> <<>>, next_id |-> FirstUserId]
    ELSE IF file.kind = "unreadable"
    THEN \* open() raises PermissionError, which the except clause does not name
         [exc |-> "PermissionError", user |-> <<>>, next_id |-> FirstUserId]
    ELSE IF file.kind = "text"
    THEN \* json.JSONDecodeError: self._user_characters = []
         [exc |-> "none", user |-> <<>>, next_id |-> FirstUserId]
    ELSE LET data == [i \in DOMAIN file.items |-> DictOf(file.items[i])] IN
         IF \E i \in DOMAIN data : RaisesTypeError(data[i])
         THEN \* TypeError is not caught; the assignment on line 141 never happens
              [exc |-> "TypeError", user |-> <<>>, next_id |-> FirstUserId]
         ELSE LET chars == [i \in DOMAIN data |-> FromDict(data[i])] IN
              [exc |-> "none", user |-> chars, next_id |-> NextIdAfterLoad(chars)]

\* ---------------------------------------------------------- create command
NameInputs == {"", "Summer", "Beth"}
StatusInputs == {"", "7"}

\* seeded fault: an empty answer is replaced even when there is no default
prompt_AlwaysDefault(input, default) ==
    IF input # "" THEN input ELSE IF default # "" THEN default ELSE "Unknown"

\* CLI.prompt(message, default) answered with the (stripped) text input
prompt(input, default) ==
    IF default # "" THEN (IF input # "" THEN input ELSE default) ELSE input

\* status_map.get(status_choice, "unknown")
status_map(choice) ==
    IF choice = "1" THEN "Alive"
    ELSE IF choice = "2" THEN "Dead"
    ELSE IF choice = "3" THEN "unknown"
    ELSE "unknown"

\* gender_map.get(gender_choice, "unknown")
gender_map(choice) ==
    IF choice = "1" THEN "Male"
    ELSE IF choice = "2" THEN "Female"
    ELSE IF choice = "3" THEN "Genderless"
    ELSE IF choice = "4" THEN "unknown"
    ELSE "unknown"

\* the Character CreateCommand.execute builds from the answers (lines 497-508)
NewCharacter(name, status_in) ==
    [id              |-> 0,
     name            |-> name,
     status          |-> status_map(prompt(status_in, "1")),
     species         |-> prompt("", "Human"),
     gender          |-> gender_map(prompt("", "1")),
     origin          |-> prompt("", "Unknown"),
     location        |-> prompt("", "Unknown"),
     image_url       |-> "",
     episode_count   |-> 0,
     created_by_user |-> TRUE]

\* seeded fault: the id is not assigned
Assigned_KeepsId(char, nid) == [char EXCEPT !.created_by_user = TRUE]

\* add_user_character, lines 119-120: the entry as stored
Assigned(char, nid) == [char EXCEPT !.id = nid, !.created_by_user = TRUE]

\* seeded fault: the counter is not advanced
Incremented_Stays(nid) == nid

\* add_user_character, line 121
Incremented(nid) == nid + 1

\* seeded fault: the new entry replaces the sequence
Appended_Replaces(chars, char) == <<char>>

\* add_user_character, line 122
Appended(chars, char) == Append(chars, char)

\* ----------------------------------------------------------------- results
NoData == <<>>
NoInvocation == [line |-> <<>>, parsed |-> NoData, handler |-> "none", passed |-> NoData]
Result(op, arg, exc, success, value) ==
    [op |-> op, arg |-> arg, exc |-> exc, success |-> success, value |-> value]

\* ------------------------------------------------------------------- start
\* main(): CharacterStorage() then cli.run(); an exception in the constructor
\* ends the process before the loop starts.
Start(file) ==
    \E l \in {load_user_characters(file)} :
    /\ pc' = IF l.exc = "none" THEN "running" ELSE "crashed"
    /\ api_characters' = <<>>
    /\ user_characters' = l.user
    /\ next_id' = l.next_id
    /\ ret' = Result("start", NoData, l.exc, l.exc = "none", NoData)
    /\ invocation' = NoInvocation

InitFrom(file) ==
    \E l \in {load_user_characters(file)} :
    /\ save_file = file
    /\ pc = IF l.exc = "none" THEN "running" ELSE "crashed"
    /\ api_characters = <<>>
    /\ user_characters = l.user
    /\ next_id = l.next_id
    /\ ret = Result("start", NoData, l.exc, l.exc = "none", NoData)
    /\ creates = 0
    /\ invocation = NoInvocation

\* the store is absent and only this program writes it
Init == InitFrom(Absent)

\* ----------------------------------------------------------------- actions
Digits == ("0" :> 0) @@ ("1" :> 1) @@ ("2" :> 2)

RECURSIVE DigitsValue(_)
DigitsValue(s) ==
    IF s = <<>> THEN 0
    ELSE 10 * DigitsValue(SubSeq(s, 1, Len(s) - 1)) + Digits[s[Len(s)]]

\* int(text): an optional sign, then digits; anything else is a ValueError
int(text) ==
    LET signed == text # <<>> /\ text[1] \in {"+", "-"}
        body == IF signed THEN Tail(text) ELSE text
    IN IF body = <<>> \/ \E i \in DOMAIN body : body[i] \notin DOMAIN Digits
       THEN [exc |-> "ValueError", value |-> 0]
       ELSE [exc |-> "none",
             value |-> IF signed /\ text[1] = "-" THEN 0 - DigitsValue(body)
                       ELSE DigitsValue(body)]

\* seeded fault: the argument is ignored
PageOf_First(args) == 1

\* FetchCommand.execute, lines 441-446: the page asked for
PageOf(args) ==
    IF args = <<>> THEN 1
    ELSE LET n == int(args[1]) IN IF n.exc = "ValueError" THEN 1 ELSE n.value

\* requests.get for the page, and what it ended in
Answer(page, response) ==
    [kind |-> response.kind, data |-> response.data, page |-> page]

\* FetchCommand.execute -> CharacterStorage.fetch_from_api; an exception that
\* leaves fetch_from_api is caught nowhere (CLI.run catches KeyboardInterrupt
\* and EOFError only) and ends the process.
FetchCommand(args) ==
    /\ pc = "running"
    /\ \E page \in {PageOf(args)}, response \in Responses :
        \E f \in {fetch_from_api(api_characters, response)} :
        /\ api_characters' = f.api
        /\ pc' = IF f.exc = "none" THEN "running" ELSE "crashed"
        /\ ret' = Result("fetch", Answer(page, response), f.exc,
                         f.exc = "none" /\ f.value # <<>>, f.value)
    /\ UNCHANGED <<user_characters, next_id, save_file, creates>>

\* the positional arguments a fetch line can have: none, or a page
FetchArgs == {<<>>, << <<"2">> >>}

\* a fetch command, whatever line asked for it
Fetch == (\E args \in FetchArgs : FetchCommand(args)) /\ UNCHANGED invocation

\* CreateCommand.execute -> CharacterStorage.add_user_character
CreateCommand ==
    /\ pc = "running"
    /\ \E name \in NameInputs, status_in \in StatusInputs :
        IF prompt(name, "") = ""
        THEN /\ ret' = Result("create", name, "none", FALSE, NoData)
             /\ UNCHANGED <<user_characters, next_id, save_file, creates>>
        ELSE /\ Len(user_characters) < MaxUser
             /\ LET char == Assigned(NewCharacter(name, status_in), next_id) IN
                /\ next_id' = Incremented(next_id)
                /\ user_characters' = Appended(user_characters, char)
                /\ save_file' = save_user_characters(user_characters')
                /\ creates' = creates + 1
                /\ ret' = Result("create", name, "none", TRUE, char)
    /\ UNCHANGED <<pc, api_characters>>

\* a create command, whatever line asked for it
Create == CreateCommand /\ UNCHANGED invocation

\* The process has ended (exit command, end of input, or a crash) and main()
\* runs again: a new CharacterStorage is built from the file.
Restart ==
    /\ Start(save_file)
    /\ UNCHANGED <<save_file, creates>>

Next == Fetch \/ Create \/ Restart

Spec == Init /\ [][Next]_vars

\* ------------------------------------------------- the parser on its own
\* Tokens a line is made of: long and short options, the bare dashes, words.
TokenPool == { <<"-", "-", "a">>, <<"-", "a">>, <<"b">>, <<"-", "B">>,
               <<"-", "-">>, <<"A">> }

TokenLists == SeqsUpTo(TokenPool, MaxTokens)

\* How the tokens are laid out on the line: single spaces, or runs of
\* blanks and tabs between the tokens and around them.
Layouts == {"plain", "padded"}

Line(tokens, layout) ==
    IF layout = "plain" THEN join(tokens, <<" ">>)
    ELSE <<"\t", " ">> \o join(tokens, <<" ", "\t">>) \o <<" ">>

\* CLI.run, line 728: a line has been read and is about to be parsed
InitParse ==
    /\ pc = "running"
    /\ api_characters = <<>>
    /\ user_characters = <<>>
    /\ next_id = FirstUserId
    /\ save_file = Absent
    /\ creates = 0
    /\ invocation = NoInvocation
    /\ \E tokens \in TokenLists, layout \in Layouts :
        ret = Result("input", [tokens |-> tokens, line |-> Line(tokens, layout)],
                     "none", TRUE, NoData)

\* ArgsParser.parse on the line that was read
ParseLine ==
    /\ pc = "running"
    /\ ret' = Result("parse", ret.arg, "none", TRUE, parse(ret.arg.line))
    /\ UNCHANGED <<pc, api_characters, user_characters, next_id, save_file,
                   creates, invocation>>

NextParse == ParseLine

SpecParse == InitParse /\ [][NextParse]_vars

\* ------------------------------------------- a store others can write too
HandRecord(id, name) ==
    asdict([id |-> id, name |-> name, status |-> "Alive", species |-> "Human",
            gender |-> "Male", origin |-> "Unknown", location |-> "Unknown",
            image_url |-> "", episode_count |-> 0, created_by_user |-> FALSE])

\* the members id..image_url only: the two fields with defaults left out
ShortRecord(id, name) == SubSeq(HandRecord(id, name), 1, 8)

Json(items) == [kind |-> "json", items |-> items]

ForeignStores ==
    {Absent,
     [kind |-> "unreadable", items |-> <<>>],
     [kind |-> "text", items |-> <<>>],
     Json(<<>>),
     Json(<<HandRecord(7, "Jerry"), HandRecord(3, "Squanchy")>>),
     Json(<<ShortRecord(20000, "Birdperson")>>),
     Json(<<Tail(HandRecord(5, "Noid"))>>),
     Json(<<Append(HandRecord(5, "Extra"), <<"nickname", "x">>)>>)}

\* Between two runs somebody else replaces, damages or removes the file, and
\* main() runs again on what they left.  (While the program runs nobody else
\* writes the file.)  The count of creates starts again with the foreign file.
RestartForeign ==
    /\ \E file \in ForeignStores :
        /\ save_file' = file
        /\ Start(file)
    /\ creates' = 0

InitExt == \E file \in ForeignStores : InitFrom(file)

NextExt == Fetch \/ Create \/ Restart \/ RestartForeign

SpecExt == InitExt /\ [][NextExt]_vars

\* ---------------------------------------------------------------- the CLI
\* CLI.use_strategy in main(): the commands in the order they are registered
Registry == <<
    [name |-> <<"l", "i", "s", "t">>, handler |-> "list"],
    [name |-> <<"s", "h", "o", "w">>, handler |-> "show"],
    [name |-> <<"s", "e", "a", "r", "c", "h">>, handler |-> "search"],
    [name |-> <<"s", "t", "a", "t", "s">>, handler |-> "stats"],
    [name |-> <<"f", "e", "t", "c", "h">>, handler |-> "fetch"],
    [name |-> <<"c", "r", "e", "a", "t", "e">>, handler |-> "create"],
    [name |-> <<"m", "y">>, handler |-> "my"],
    [name |-> <<"h", "e", "l", "p">>, handler |-> "help"],
    [name |-> <<"c", "l", "e", "a", "r">>, handler |-> "clear"],
    [name |-> <<"e", "x", "i", "t">>, handler |-> "exit"] >>

\* self._commands.keys()
commands_keys == [i \in DOMAIN Registry |-> Registry[i].name]

\* self._commands.get(name)
commands_get(name) ==
    IF \E i \in DOMAIN Registry : Registry[i].name = name
    THEN Registry[CHOOSE i \in DOMAIN Registry : Registry[i].name = name].handler
    ELSE "none"

\* s[:n]
Slice(s, n) == SubSeq(s, 1, IF Len(s) < n THEN Len(s) ELSE n)

\* seeded fault: the whole typed name is the prefix
Suggestions_WholeName(command) ==
    SelectSeq(commands_keys, LAMBDA c : startswith(c, command))

\* exec_command, line 694
Suggestions(command) ==
    SelectSeq(commands_keys, LAMBDA c : startswith(c, Slice(command, 2)))

\* the text of the names entries have
Chars == ("Rick Sanchez" :> <<"R", "i", "c", "k", " ", "S", "a", "n", "c", "h", "e", "z">>)
      @@ ("Beth Smith" :> <<"B", "e", "t", "h", " ", "S", "m", "i", "t", "h">>)
      @@ ("Nobody" :> <<"N", "o", "b", "o", "d", "y">>)
      @@ ("Summer" :> <<"S", "u", "m", "m", "e", "r">>)
      @@ ("Beth" :> <<"B", "e", "t", "h">>)

\* seeded fault: the query is looked for at the start of the name only
Contains_AtStart(text, sub) == startswith(text, sub)

\* sub in text
Contains(text, sub) ==
    \E i \in 0..(Len(text) - Len(sub)) : SubSeq(text, i + 1, i + Len(sub)) = sub

\* CharacterStorage.search
search(all, query) ==
    SelectSeq(all, LAMBDA c : Contains(lower(Chars[c.name]), lower(query)))

\* seeded fault: only the user entries are looked through
get_by_id_UserOnly(api, user, char_id) ==
    IF \E i \in DOMAIN user : user[i].id = char_id
    THEN user[CHOOSE i \in DOMAIN user :
                 /\ user[i].id = char_id
                 /\ \A j \in 1..(i - 1) : user[j].id # char_id]
    ELSE NoData

\* CharacterStorage.get_by_id: the first entry with the id, or None
get_by_id(api, user, char_id) ==
    LET all == get_all_of(api, user) IN
    IF \E i \in DOMAIN all : all[i].id = char_id
    THEN all[CHOOSE i \in DOMAIN all :
                /\ all[i].id = char_id
                /\ \A j \in 1..(i - 1) : all[j].id # char_id]
    ELSE NoData

\* ---------------------------------------------------------------- handlers
\* what a handler that only reads the storage leaves alone
ReadOnly ==
    UNCHANGED <<pc, api_characters, user_characters, next_id, save_file, creates>>

\* ListCommand.execute
ListCommand(args) ==
    /\ ret' = Result("list", args, "none", get_all # <<>>, get_all)
    /\ ReadOnly

\* ShowCommand.execute
ShowCommand(args) ==
    /\ IF args = <<>>
       THEN ret' = Result("show", args, "none", FALSE, NoData)
       ELSE \E n \in {int(args[1])} :
            IF n.exc = "ValueError"
            THEN ret' = Result("show", args, "none", FALSE, NoData)
            ELSE \E char \in {get_by_id(api_characters, user_characters, n.value)} :
                 ret' = Result("show", args, "none", char # NoData, char)
    /\ ReadOnly

\* SearchCommand.execute
SearchCommand(args) ==
    /\ IF args = <<>>
       THEN ret' = Result("search", args, "none", FALSE, NoData)
       ELSE \E results \in {search(get_all, join(args, <<" ">>))} :
            ret' = Result("search", args, "none", results # <<>>, results)
    /\ ReadOnly

\* StatsCommand.execute
StatsCommand(args) ==
    /\ IF get_all = <<>>
       THEN ret' = Result("stats", args, "none", FALSE, NoData)
       ELSE LET alive == Len(SelectSeq(get_all, LAMBDA c : c.status = "Alive"))
                dead  == Len(SelectSeq(get_all, LAMBDA c : c.status = "Dead"))
            IN ret' = Result("stats", args, "none", TRUE,
                        [total |-> Len(get_all), alive |-> alive, dead |-> dead,
                         unknown |-> Len(get_all) - alive - dead,
                         user_created |->
                             Len(SelectSeq(get_all,
                                           LAMBDA c : c.created_by_user))])
    /\ ReadOnly

\* MyCharsCommand.execute
MyCharsCommand(args) ==
    /\ ret' = Result("my", args, "none", user_characters # <<>>, user_characters)
    /\ ReadOnly

\* HelpCommand.execute
HelpCommand(args) ==
    /\ ret' = Result("help", args, "none", TRUE, commands_keys)
    /\ ReadOnly

\* ClearCommand.execute
ClearCommand(args) ==
    /\ ret' = Result("clear", args, "none", TRUE, NoData)
    /\ ReadOnly

\* ExitCommand.execute: sys.exit(0) raises SystemExit, which nothing catches;
\* the process ends and no result is returned.
ExitCommand(args) ==
    /\ pc' = "exited"
    /\ ret' = Result("exit", args, "SystemExit", TRUE, NoData)
    /\ UNCHANGED <<api_characters, user_characters, next_id, save_file, creates>>

\* cmd.execute(args) for the command the registry gave
execute(handler, args) ==
    \/ handler = "list" /\ ListCommand(args)
    \/ handler = "show" /\ ShowCommand(args)
    \/ handler = "search" /\ SearchCommand(args)
    \/ handler = "stats" /\ StatsCommand(args)
    \/ handler = "fetch" /\ FetchCommand(args)
    \/ handler = "create" /\ CreateCommand
    \/ handler = "my" /\ MyCharsCommand(args)
    \/ handler = "help" /\ HelpCommand(args)
    \/ handler = "clear" /\ ClearCommand(args)
    \/ handler = "exit" /\ ExitCommand(args)

\* seeded fault: the handler gets every token after the command
Passed_AllTokens(raw_input, parsed) == Tail(split(strip(raw_input)))

\* exec_command, line 700: what the handler is called with
Passed(raw_input, parsed) == parsed.args

\* CLI.exec_command
exec_command(raw_input) ==
    \E parsed \in {parse(raw_input)} :
    IF parsed.command = <<>>
    THEN /\ invocation' = [line |-> raw_input, parsed |-> parsed,
                           handler |-> "none", passed |-> NoData]
         /\ ret' = Result("dispatch", raw_input, "none", FALSE, NoData)
         /\ ReadOnly
    ELSE \E handler \in {commands_get(parsed.command)} :
         IF handler = "none"
         THEN /\ invocation' = [line |-> raw_input, parsed |-> parsed,
                                handler |-> "none", passed |-> NoData]
              /\ ret' = Result("dispatch", raw_input, "none", FALSE,
                               Suggestions(parsed.command))
              /\ ReadOnly
         ELSE \E args \in {Passed(raw_input, parsed)} :
              /\ invocation' = [line |-> raw_input, parsed |-> parsed,
                                handler |-> handler, passed |-> args]
              /\ execute(handler, args)

\* the lines typed at the prompt
ConsoleLines == {
    <<"s", "t", "a", "t", "s">>,
    <<"m", "y">>,
    <<"h", "e", "l", "p">>,
    <<"c", "l", "e", "a", "r">>,
    <<"e", "x", "i", "t">>,
    <<"f", "e", "t", "c", "h", " ", "2">>,
    <<"f", "e", "t", "c", "h", " ", "x">>,
    <<"f", "e", "t", "c", "h", " ", "-", "-", "p", "a", "g", "e", " ", "2">>,
    <<"c", "r", "e", "a", "t", "e">>,
    <<"s", "h", "o", "w">>,
    <<"s", "h", "o", "w", " ", "0", "1">>,
    <<"s", "h", "o", "w", " ", "1", "0", "0", "0", "0">>,
    <<"s", "h", "o", "w", " ", "x">>,
    <<"s", "h", "o", "w", " ", "-", "a", " ", "1">>,
    <<"S", "h", "o", "w", " ", "1", " ", "x">>,
    <<"s", "e", "a", "r", "c", "h">>,
    <<"s", "e", "a", "r", "c", "h", " ", "r", "i", "c", "k">>,
    <<"s", "e", "a", "r", "c", "h", " ", "r", "i", "c", "k", "y">>,
    <<"s", "e", "a", "r", "c", "h", " ", "S">>,
    <<"s", "e", "a", "r", "c", "h", " ", "r", "i", "c", "k", " ", "s">>,
    <<"s">>,
    <<"S", "e">>,
    <<"z", "z">>,
    <<" ", "l", "i", "s", "t", "\t">>,
    <<>> }

\* CLI.run, one turn of the loop: a blank line is skipped, any other line is
\* dispatched.
ReadLine ==
    /\ pc = "running"
    /\ \E line \in ConsoleLines :
        \E raw \in {strip(line)} :
        IF raw = <<>> THEN UNCHANGED vars ELSE exec_command(raw)

BlankLines == {<<>>, <<" ", "\t">>}

\* CLI.exec_command called by somebody other than CLI.run, which never
\* passes a blank line on
ExecDirect ==
    /\ pc = "running"
    /\ \E line \in BlankLines : exec_command(line)

\* CLI.run, lines 737-738: Ctrl-C at the prompt
Interrupt ==
    /\ pc = "running"
    /\ ret' = Result("interrupt", NoData, "KeyboardInterrupt", TRUE, NoData)
    /\ invocation' = NoInvocation
    /\ ReadOnly

\* CLI.run, lines 739-740: the input stream has ended
EndOfInput ==
    /\ pc = "running"
    /\ pc' = "ended"
    /\ ret' = Result("eof", NoData, "EOFError", TRUE, NoData)
    /\ invocation' = NoInvocation
    /\ UNCHANGED <<api_characters, user_characters, next_id, save_file, creates>>

NextCli == ReadLine \/ ExecDirect \/ Interrupt \/ EndOfInput \/ Restart

SpecCli == Init /\ [][NextCli]_vars

\* ===================================================================
\* Properties
\* ===================================================================

\* the items of a 200 response
ItemsOf(response) == Get(response.data, "results", <<>>)

\* the last operation was a fetch that failed: a transport fault, or a
\* response one of whose records cannot be turned into an entry
FetchFailed(r) ==
    /\ r.op = "fetch"
    /\ \/ r.arg.kind \in TransportFaults
       \/ \E i \in DOMAIN ItemsOf(r.arg) : RaisesKeyError(ItemsOf(r.arg)[i])

\* the last operation was a fetch that succeeded
FetchSucceeded(r) == r.op = "fetch" /\ ~FetchFailed(r)

\* the last operation was a create that stored an entry
Created(r) == r.op = "create" /\ r.success

\* C1: in every reachable state no two entries of getAll() have the same id
\* (remote records carry arbitrary integer ids).
C1_UniqueIds ==
    \A i, j \in DOMAIN get_all : i # j => get_all[i].id # get_all[j].id

\* C2: from an absent store only this program writes, every user entry has
\* id >= 10000 and is flagged user-created, every remote entry is not flagged.
C2_ReservedRange ==
    /\ \A i \in DOMAIN user_characters :
        /\ user_characters[i].id >= FirstUserId
        /\ user_characters[i].created_by_user
    /\ \A i \in DOMAIN api_characters : ~api_characters[i].created_by_user

\* a restart has reloaded an entry created with an invalid status choice
C2_Witness ==
    /\ ret.op = "start"
    /\ Len(user_characters) = 1
    /\ user_characters[1].status = "unknown"

\* C3: a failing fetchRemote (transport fault, or a response that cannot be
\* turned into entries) leaves the remote sequence as it was, returns an empty
\* result and lets no exception leave the storage.
C3_FailedFetchContained ==
    [][FetchFailed(ret') =>
        /\ api_characters' = api_characters
        /\ ret'.value = <<>>
        /\ ret'.exc = "none"]_vars

\* C4: after a successful fetchRemote the remote sequence is exactly the
\* entries mapped from that one response, in response order; nothing of an
\* earlier fetch remains unless the response holds it too.
C4_FetchReplaces ==
    [][FetchSucceeded(ret') =>
        LET items == ItemsOf(ret'.arg) IN
        /\ Len(api_characters') = Len(items)
        /\ \A i \in DOMAIN items :
            /\ api_characters'[i] = CharacterOf(items[i])
            /\ api_characters'[i].id = items[i].id
            /\ api_characters'[i].name = items[i].name
        /\ \A c \in Range(api_characters) :
            c \in Range(api_characters') =>
                \E i \in DOMAIN items : items[i].id = c.id]_vars

\* a fetch of two records has succeeded while user entries exist
C4_Witness ==
    /\ FetchSucceeded(ret)
    /\ Len(api_characters) = 2
    /\ api_characters[1].id # api_characters[2].id
    /\ user_characters # <<>>

\* C5: getAll() is the remote sequence followed by the user sequence: its
\* length is the sum of both, every remote entry precedes every user entry.
C5_GetAllOrder ==
    /\ Len(get_all) = Len(api_characters) + Len(user_characters)
    /\ \A i \in DOMAIN api_characters : get_all[i] = api_characters[i]
    /\ \A j \in DOMAIN user_characters :
        get_all[Len(api_characters) + j] = user_characters[j]

\* both sequences hold entries
C5_Witness ==
    /\ api_characters # <<>>
    /\ Len(user_characters) >= 2
    /\ ret.op = "fetch"

\* C6: addUserEntry gives the entry the counter's value as id, raises the
\* counter by one, appends the entry at the end, and leaves the store holding
\* the whole user sequence, entry by entry in order.
C6_AddPersistsAll ==
    [][Created(ret') =>
        /\ ret'.value.id = next_id
        /\ next_id' = next_id + 1
        /\ user_characters' = Append(user_characters, ret'.value)
        /\ save_file'.kind = "json"
        /\ Len(save_file'.items) = Len(user_characters')
        /\ \A i \in DOMAIN user_characters' :
            LET d == DictOf(save_file'.items[i]) IN
            /\ DOMAIN d = AllFields
            /\ \A k \in AllFields : d[k] = user_characters'[i][k]]_vars

\* a second entry has been added
C6_Witness ==
    /\ Created(ret)
    /\ Len(user_characters) >= 2
    /\ user_characters[Len(user_characters)] = ret.value

\* C7: after a restart getAll() is the user sequence as it was just before
\* the restart (entries, ids, fields, order) and no remote entry is left.
C7_RestartRoundTrip ==
    [][ret'.op = "start" =>
        /\ ret'.exc = "none"
        /\ get_all_of(api_characters', user_characters') = user_characters]_vars

\* a restart has reloaded two entries
C7_Witness ==
    /\ ret.op = "start"
    /\ pc = "running"
    /\ Len(get_all) >= 2
    /\ get_all[1].id # get_all[2].id

\* C8: at startup the counter is one more than the greatest reloaded id when
\* entries were reloaded, and 10000 when none were (store absent, empty list
\* or rejected as malformed).
C8_CounterAtStartup ==
    (ret.op = "start" /\ pc = "running") =>
        IF user_characters = <<>>
        THEN next_id = FirstUserId
        ELSE /\ \A i \in DOMAIN user_characters : user_characters[i].id < next_id
             /\ \E i \in DOMAIN user_characters : user_characters[i].id + 1 = next_id

\* a start has reloaded entries whose greatest id is not the last one
C8_Witness ==
    /\ ret.op = "start"
    /\ pc = "running"
    /\ Len(user_characters) = 2
    /\ user_characters[1].id > user_characters[2].id

\* the file is absent, unreadable, no JSON, or JSON with a record that lacks
\* a field or carries an unexpected one
Unloadable(file) ==
    \/ file.kind \in {"absent", "unreadable", "text"}
    \/ /\ file.kind = "json"
       /\ \E i \in DOMAIN file.items : RaisesTypeError(DictOf(file.items[i]))

\* C9: startup never fails because of the store: when the file is absent,
\* unreadable, no JSON or JSON with ill-shaped records, construction
\* completes with an empty user sequence.
C9_StartupNeverFails ==
    (ret.op = "start" /\ Unloadable(save_file)) =>
        /\ ret.exc = "none"
        /\ pc = "running"
        /\ user_characters = <<>>

\* C10: from an absent store the n-th successful create of the history gets
\* id 10000 + n - 1, whatever fetches, failed creates and restarts intervene.
C10_NthCreateId ==
    [][Created(ret') => ret'.value.id = FirstUserId + creates' - 1]_vars

\* the second create of the history has been stored while remote entries exist
C10_Witness ==
    /\ Created(ret)
    /\ creates = 2
    /\ api_characters # <<>>

\* the tokens of the line the parser was given last
Tokens == ret.arg.tokens
Parsed == ret.value

IsOption(token) == Len(token) >= 1 /\ token[1] = "-"
IsLong(token) == Len(token) >= 2 /\ token[1] = "-" /\ token[2] = "-"

\* token i is the value of the long option before it
IsValue(tokens, i) ==
    i >= 3 /\ IsLong(tokens[i - 1]) /\ ~IsOption(tokens[i])

KeyOf(token) == IF IsLong(token) THEN SubSeq(token, 3, Len(token))
                ELSE SubSeq(token, 2, Len(token))

ValueOf(tokens, i) ==
    IF ~IsLong(tokens[i]) THEN <<"t", "r", "u", "e">>
    ELSE IF i + 1 <= Len(tokens) /\ IsValue(tokens, i + 1) THEN tokens[i + 1]
    ELSE <<>>

OptionTokens(tokens) == {i \in 2..Len(tokens) : IsOption(tokens[i])}

PositionalTokens(tokens) ==
    {i \in 2..Len(tokens) : ~IsOption(tokens[i]) /\ ~IsValue(tokens, i)}

\* the tokens at the positions in S, in input order
RECURSIVE Kept(_, _, _)
Kept(tokens, S, i) ==
    IF i > Len(tokens) THEN <<>>
    ELSE (IF i \in S THEN <<tokens[i]>> ELSE <<>>) \o Kept(tokens, S, i + 1)

PlacedOnce(tokens, parsed) ==
    /\ parsed.args = Kept(tokens, PositionalTokens(tokens), 1)
    /\ DOMAIN parsed.options = {KeyOf(tokens[i]) : i \in OptionTokens(tokens)}

\* C11 as stated: each token after the first lands in exactly one place; an
\* option token is a key of the returned options whose value is the next
\* token when that token exists and does not start with a dash (the value
\* token is then not a positional argument), the empty string otherwise for
\* a long option and "true" for a short one; the other tokens are the
\* positional arguments, in input order.
C11_EveryOptionKept ==
    ret.op = "parse" =>
        /\ PlacedOnce(Tokens, Parsed)
        /\ \A i \in OptionTokens(Tokens) :
              Parsed.options[KeyOf(Tokens[i])] = ValueOf(Tokens, i)

\* C11, amended: the same, and when several tokens of the line give the same
\* key, the key has the value given by the last of them.
C11_LastOptionKept ==
    ret.op = "parse" =>
        /\ PlacedOnce(Tokens, Parsed)
        /\ \A i \in OptionTokens(Tokens) :
              (\A j \in OptionTokens(Tokens) :
                  KeyOf(Tokens[j]) = KeyOf(Tokens[i]) => j <= i)
              => Parsed.options[KeyOf(Tokens[i])] = ValueOf(Tokens, i)

\* a long option that consumed its value on a padded line
C11_Witness ==
    /\ ret.op = "parse"
    /\ Tokens = << <<"A">>, <<"-", "-", "a">>, <<"b">> >>
    /\ ret.arg.line # join(Tokens, <<" ">>)
    /\ Parsed.args = <<>>
    /\ Parsed.options = Put(EmptyDict, <<"a">>, <<"b">>)

Uppercase == DOMAIN UpperToLower

\* C12: parsing never fails; the command name is the first whitespace-
\* separated token in lower case, whatever its shape, and a line that is
\* empty or only whitespace gives an empty command name, no arguments and
\* no options.
C12_CommandName ==
    ret.op = "parse" =>
        /\ ret.exc = "none"
        /\ Tokens = <<>> =>
              /\ Parsed.command = <<>>
              /\ Parsed.args = <<>>
              /\ Parsed.options = EmptyDict
        /\ Tokens # <<>> =>
              /\ Len(Parsed.command) = Len(Tokens[1])
              /\ \A k \in 1..Len(Tokens[1]) :
                    /\ Parsed.command[k] \notin Uppercase
                    /\ Tokens[1][k] \notin Uppercase =>
                          Parsed.command[k] = Tokens[1][k]
                    /\ Tokens[1][k] \in Uppercase =>
                          Parsed.command[k] = UpperToLower[Tokens[1][k]]

\* a first token that starts with a dash and has a capital letter
C12_Witness ==
    /\ ret.op = "parse"
    /\ Tokens # <<>>
    /\ Tokens[1] = <<"-", "B">>
    /\ Parsed.command = <<"-", "b">>

\* C15: a create whose name prompt is answered with an empty name returns a
\* failure result and leaves the user sequence, the counter and the durable
\* store as they were.
C15_EmptyNameAborts ==
    [][(ret'.op = "create" /\ ret'.arg = "") =>
          /\ ~ret'.success
          /\ UNCHANGED <<user_characters, next_id, save_file>>]_vars

\* an aborted create in a catalog that already holds a user entry
C15_Witness ==
    /\ ret.op = "create"
    /\ ret.arg = ""
    /\ ~ret.success
    /\ user_characters # <<>>
    /\ save_file = save_user_characters(user_characters)

IsPrefix(s, t) == Len(s) <= Len(t) /\ SubSeq(t, 1, Len(s)) = s

\* C19: every fetch, successful or failing, leaves the user sequence, the
\* counter and the durable store unchanged; within one process run the user
\* sequence only grows at its end, no entry is removed or replaced.
C19_UserOnlyAppended ==
    [][/\ ret'.op = "fetch" =>
             UNCHANGED <<user_characters, next_id, save_file>>
       /\ ret'.op # "start" => IsPrefix(user_characters, user_characters')]_vars

\* a fetch that replaced the remote sequence while user entries exist
C19_Witness ==
    /\ ret.op = "fetch"
    /\ ret.success
    /\ Len(user_characters) = MaxUser
    /\ save_file = save_user_characters(user_characters)

\* C20: in every reachable state the counter is greater than the id of every
\* entry of the user sequence; within one process run the counter never
\* decreases and changes only when an entry is added.
C20_CounterAbove ==
    /\ [](\A i \in DOMAIN user_characters : user_characters[i].id < next_id)
    /\ [][ret'.op # "start" =>
             /\ next_id' >= next_id
             /\ next_id' # next_id => Created(ret')]_vars

\* an entry added after a store written by somebody else was loaded
C20_Witness ==
    /\ Created(ret)
    /\ next_id > FirstUserId + MaxUser
    /\ Len(user_characters) >= 2

SameLetter(a, b) ==
    \/ a = b
    \/ a \in Uppercase /\ UpperToLower[a] = b
    \/ b \in Uppercase /\ UpperToLower[b] = a

\* the command name as it was typed on the dispatched line
Typed == Head(split(invocation.line))

SharesTwo(name, typed) ==
    /\ Len(name) >= 2
    /\ Len(typed) >= 2
    /\ SameLetter(name[1], typed[1])
    /\ SameLetter(name[2], typed[2])

Unregistered ==
    /\ ret.op = "dispatch"
    /\ invocation # NoInvocation
    /\ invocation.parsed.command # <<>>

\* C13: dispatch of a non-empty command name with no registered handler
\* returns a failure whose suggestions are exactly the registered names that
\* share the first two characters of the typed name, ignoring case; a typed
\* name shorter than two characters gets no suggestion.
C13_Suggestions ==
    Unregistered =>
        /\ ~ret.success
        /\ Range(ret.value) = {c \in Range(commands_keys) : SharesTwo(c, Typed)}

\* C14: dispatch runs at most one handler per line: for a registered name
\* that handler, once, with exactly the positional arguments of the parsed
\* line, and its result is what dispatch returns; for an empty or
\* unregistered name no handler runs, the result is a failure and the
\* storage state is unchanged.
C14_DispatchOne ==
    /\ [](invocation # NoInvocation =>
            IF invocation.parsed.command \in Range(commands_keys)
            THEN /\ \E i \in DOMAIN Registry :
                       /\ Registry[i].name = invocation.parsed.command
                       /\ Registry[i].handler = invocation.handler
                 /\ ret.op = invocation.handler
                 /\ invocation.passed = invocation.parsed.args
                 /\ ret.op \notin {"fetch", "create"} =>
                       ret.arg = invocation.parsed.args
            ELSE /\ invocation.handler = "none"
                 /\ ret.op = "dispatch"
                 /\ ~ret.success)
    /\ [][/\ ret'.op = "dispatch" =>
                UNCHANGED <<api_characters, user_characters, next_id, save_file>>
          /\ Len(user_characters') <= Len(user_characters) + 1]_vars

\* show reached with the one positional argument of a line that also has a flag
C14_Witness ==
    /\ invocation.line = <<"s", "h", "o", "w", " ", "-", "a", " ", "1">>
    /\ invocation.handler = "show"
    /\ ret.op = "show"
    /\ ret.arg = << <<"1">> >>
    /\ ret.success

\* text has the query somewhere in it, letter case aside
NameHas(text, query) ==
    \E off \in 0..(Len(text) - Len(query)) :
        \A k \in 1..Len(query) : SameLetter(text[off + k], query[k])

\* C16: search(text) returns exactly the entries of getAll() whose name
\* contains text as a contiguous substring, ignoring case, in the order they
\* have in getAll().
C16_SearchSubstring ==
    (ret.op = "search" /\ ret.arg # <<>>) =>
        ret.value = SelectSeq(get_all,
                        LAMBDA c : NameHas(Chars[c.name], join(ret.arg, <<" ">>)))

\* a query in capitals that finds several entries and leaves one out
C16_Witness ==
    /\ ret.op = "search"
    /\ ret.arg = << <<"S">> >>
    /\ Len(ret.value) >= 2
    /\ Len(ret.value) < Len(get_all)

\* C17: the loop ends only through the exit command or the end of input;
\* after any failure result and after an interrupt it goes on to the next
\* line.
C17_LoopGoesOn ==
    [][pc = "running" =>
          /\ pc' # "running" => ret'.op \in {"exit", "eof"}
          /\ (~ret'.success \/ ret'.op = "interrupt") => pc' = "running"]_vars

\* the integer the texts given to show stand for
Numerals == (<<"1">> :> 1) @@ (<<"0", "1">> :> 1) @@ (<<"2">> :> 2)
         @@ (<<"1", "0", "0", "0", "0">> :> FirstUserId)

\* C18: show succeeds exactly when its first positional argument parses as
\* an integer and an entry with that id is in the combined catalog; the
\* entry shown has that id; a non-integer argument and an id with no entry
\* give a failure result and no exception.
C18_ShowById ==
    ret.op = "show" =>
        /\ ret.exc = "none"
        /\ pc = "running"
        /\ ret.success <=>
              /\ ret.arg # <<>>
              /\ ret.arg[1] \in DOMAIN Numerals
              /\ \E i \in DOMAIN get_all : get_all[i].id = Numerals[ret.arg[1]]
        /\ ret.success =>
              /\ ret.value.id = Numerals[ret.arg[1]]
              /\ ret.value \in Range(get_all)

\* an id written with a leading zero finds the remote entry
C18_Witness ==
    /\ ret.op = "show"
    /\ ret.arg = << <<"0", "1">> >>
    /\ ret.success
    /\ ret.value.id = 1
    /\ user_characters # <<>>

\* the line that gives the page as an option
FetchPageOption == <<"f", "e", "t", "c", "h", " ", "-", "-", "p", "a", "g", "e", " ", "2">>

\* C21: the page the fetch command requests is the integer value of its
\* first positional argument when that argument parses as an integer, and 1
\* in every other case; a page given only as an option is no positional
\* argument, so page 1 is requested.
C21_PageRequested ==
    (ret.op = "fetch" /\ invocation # NoInvocation) =>
        /\ ret.arg.page =
              IF /\ invocation.parsed.args # <<>>
                 /\ invocation.parsed.args[1] \in DOMAIN Numerals
              THEN Numerals[invocation.parsed.args[1]]
              ELSE 1
        /\ invocation.line = FetchPageOption =>
              /\ invocation.parsed.args = <<>>
              /\ ret.arg.page = 1

\* "fetch --page 2" has loaded entries, of page 1
C21_Witness ==
    /\ ret.op = "fetch"
    /\ invocation.line = FetchPageOption
    /\ invocation.parsed.options = Put(EmptyDict, <<"p", "a", "g", "e">>, <<"2">>)
    /\ ret.arg.page = 1
    /\ ret.success

\* the fetch command has returned a failure result
FetchReturnedFailure(r) == r.op = "fetch" /\ r.exc = "none" /\ ~r.success

\* C22 as stated: whenever the fetch command returns a failure result,
\* getAll() is the same after the command as before it; a fetch that fails
\* because nothing was returned does not remove the entries of an earlier
\* successful fetch.
C22_FailedFetchKeepsAll ==
    [][FetchReturnedFailure(ret') =>
          get_all_of(api_characters', user_characters') = get_all]_vars

\* C22, amended: when the fetch command returns a failure result after a
\* transport failure, getAll() is the same after the command as before it;
\* when it returns a failure result because the response held no records,
\* the remote sequence has been replaced by the empty sequence and getAll()
\* is the user sequence alone.
C22_FailedFetchByCause ==
    [][FetchReturnedFailure(ret') =>
          IF ret'.arg.kind \in TransportFaults
          THEN get_all_of(api_characters', user_characters') = get_all
          ELSE /\ ItemsOf(ret'.arg) = <<>>
               /\ user_characters' = user_characters
               /\ get_all_of(api_characters', user_characters')
                     = user_characters]_vars

\* a transport failure on the second page after a fetch that loaded entries
C22_Witness ==
    /\ FetchReturnedFailure(ret)
    /\ ret.arg.kind \in TransportFaults
    /\ ret.arg.page = 2
    /\ api_characters # <<>>
    /\ user_characters # <<>>

====
